---- MODULE Spec2Model ----
(***************************************************************************)
(* Model of src/index.js: the WhatsAppBulkSender class (contact loading,   *)
(* phone formatting, sendMessage, sendBulkMessages), main() with its       *)
(* SIGINT wiring, and the Express gateway (initWhatsAppClient and the      *)
(* POST /send-message handler).                                            *)
(*                                                                         *)
(* The process is a single-threaded event loop: every action below is one  *)
(* run-to-completion segment of JavaScript between two suspension points   *)
(* (await of I/O, of a timer, of a transport call or of a lifecycle event).*)
(* Strings are sequences of one-character strings; a JavaScript value is a *)
(* record [t, s] with t its type tag.                                      *)
(***************************************************************************)
EXTENDS Integers, Sequences, FiniteSets, TLC

\* ------------------------------------------------------------------ bounds
\* rows of the contact file of a batch run
MaxRows == 2
\* gateway requests received in one process lifetime
MaxReq == 2
\* characters of a contact name, and parts of a message template, in the
\* specification that exercises sendMessage on arbitrary texts
MaxNameLen == 2
MaxParts == 2
\* characters of a raw phone, in the specification that exercises
\* formatPhoneNumber on arbitrary phones
MaxPhoneLen == 3

\* ------------------------------------------------------- JavaScript values
Str(s) == [t |-> "string", s |-> s]
Undefined == [t |-> "undefined", s |-> <<>>]
Null == [t |-> "null", s |-> <<>>]
\* a non-zero number, written with the digits s (a JSON body may carry one)
Num(s) == [t |-> "number", s |-> s]

\* ToBoolean on the values the program handles: undefined, null and the
\* empty string are falsy; a non-empty string and a non-zero number are truthy
Truthy(v) == (v.t = "string" /\ v.s # <<>>) \/ v.t = "number"

\* whether v has the method replace: strings do, numbers do not
HasReplace(v) == v.t = "string"

\* a || b
OrElse(a, b) == IF Truthy(a) THEN a ELSE b

\* ------------------------------------------------------------------ strings
Placeholder == <<"{", "n", "a", "m", "e", "}">>
Unknown == <<"U", "n", "k", "n", "o", "w", "n">>
CountryCode == <<"6", "2">>
Suffix == <<"@", "c", ".", "u", "s">>
Digits == {"0", "1", "2", "3", "4", "5", "6", "7", "8", "9"}

\* s.startsWith(p)
StartsWith(s, p) == Len(s) >= Len(p) /\ SubSeq(s, 1, Len(p)) = p

\* s.indexOf(p), 1-based; 0 when p does not occur in s
IndexOf(s, p) ==
  LET hits == {i \in 1..(Len(s) - Len(p) + 1) : SubSeq(s, i, i + Len(p) - 1) = p}
  IN IF hits = {} THEN 0 ELSE CHOOSE i \in hits : \A j \in hits : i <= j

\* the backtick and the apostrophe, as characters
Backtick == "BACKTICK"
Apostrophe == "APOSTROPHE"

\* GetSubstitution of String.prototype.replace for a string pattern (no
\* capture groups): $$ is a dollar sign, $& the matched text, $ followed by
\* a backtick the text before the match, $ followed by an apostrophe the
\* text after it; any other $ stays as written.
RECURSIVE GetSubstitution(_, _, _, _, _)
GetSubstitution(matched, before, after, rep, i) ==
  IF i > Len(rep) THEN <<>>
  ELSE IF rep[i] = "$" /\ i < Len(rep) /\ rep[i + 1] \in {"$", "&", Backtick, Apostrophe}
  THEN (CASE rep[i + 1] = "$" -> <<"$">>
          [] rep[i + 1] = "&" -> matched
          [] rep[i + 1] = Backtick -> before
          [] OTHER -> after)
       \o GetSubstitution(matched, before, after, rep, i + 2)
  ELSE <<rep[i]>> \o GetSubstitution(matched, before, after, rep, i + 1)

\* s.replace(pat, rep) with pat a string: only the first occurrence
JSReplace(s, pat, rep) ==
  LET p == IndexOf(s, pat)
      before == SubSeq(s, 1, p - 1)
      after == SubSeq(s, p + Len(pat), Len(s))
  IN IF p = 0 THEN s
     ELSE before \o GetSubstitution(pat, before, after, rep, 1) \o after

\* phone.replace(/\D/g, ""): every non-digit is dropped
StripNonDigits(s) == SelectSeq(s, LAMBDA c : c \in Digits)

\* WhatsAppBulkSender.formatPhoneNumber
formatPhoneNumberKeepZero(phone) ==
  LET cleaned == StripNonDigits(phone)
  IN (IF StartsWith(cleaned, CountryCode) THEN cleaned ELSE CountryCode \o cleaned)
     \o Suffix

formatPhoneNumber(phone) ==
  LET cleaned == StripNonDigits(phone)
      prefixed ==
        IF ~StartsWith(cleaned, CountryCode) /\ StartsWith(cleaned, <<"0">>)
        THEN CountryCode \o SubSeq(cleaned, 2, Len(cleaned))
        ELSE IF ~StartsWith(cleaned, CountryCode) /\ ~StartsWith(cleaned, <<"0">>)
        THEN CountryCode \o cleaned
        ELSE cleaned
  IN prefixed \o Suffix

\* the 'data' handler of readContactsFromCSV: a row yields a contact only if
\* it has a phone
RowAcceptedAlways(row) == TRUE
RowAccepted(row) == Truthy(row.phone)

RowToContact(row) ==
  [name |-> OrElse(row.name, Str(Unknown)),
   phone |-> Str(formatPhoneNumber(row.phone.s)),
   message |-> OrElse(row.message, Null)]

RECURSIVE readContactsFromCSV(_)
readContactsFromCSV(rows) ==
  IF rows = <<>> THEN <<>>
  ELSE (IF RowAccepted(Head(rows)) THEN <<RowToContact(Head(rows))>> ELSE <<>>)
       \o readContactsFromCSV(Tail(rows))

\* ------------------------------------------------------------- sendMessage
\* One execution of sendMessage (a dispatch attempt). pc is where it stands:
\* "idle" (none yet), "awaitNumberId", "awaitSend", "returned" (result holds
\* the boolean) or "threw" (a fault left sendMessage). text is the
\* personalized message, checked what getNumberId answered, sendIssued
\* whether client.sendMessage was called, fault whether a fault was raised
\* inside the try block (by the session, or by message.replace), session the
\* client the calls went to.
NoDispatch ==
  [pc |-> "idle", contact |-> [name |-> Undefined, phone |-> Undefined, message |-> Undefined],
   text |-> <<>>, checked |-> "none", sendIssued |-> FALSE, fault |-> FALSE,
   result |-> FALSE, session |-> 0]

InFlight(d) == d.pc \in {"awaitNumberId", "awaitSend"}
Terminal(d) == d.pc \in {"returned", "threw"}

\* const message = contact.message || defaultMessage
ResolveMessage(contact, defaultMessage) == OrElse(contact.message, defaultMessage)

\* message.replace('{name}', contact.name)
Personalize(message, name) == JSReplace(message, Placeholder, name)

\* the catch block of sendMessage: the fault is logged and becomes false
PropagateFault(d) == [d EXCEPT !.pc = "threw", !.fault = TRUE]
CatchFault(d) == [d EXCEPT !.pc = "returned", !.result = FALSE, !.fault = TRUE]

\* if (!numberId) return false
SkipUnregistered(d) == [d EXCEPT !.pc = "awaitSend", !.sendIssued = TRUE]
NotRegistered(d) == [d EXCEPT !.pc = "returned", !.result = FALSE]

\* sendMessage from its call to its first await: no text is a plain false,
\* otherwise the text is personalized (a message that is no string raises a
\* TypeError there, inside the try block) and getNumberId is called on the
\* session
SendMessageCallNoCheck(contact, defaultMessage, session) ==
  LET message == ResolveMessage(contact, defaultMessage)
      d == [NoDispatch EXCEPT !.contact = contact, !.session = session]
  IN [d EXCEPT !.pc = "awaitNumberId", !.text = Personalize(message.s, contact.name.s)]

SendMessageCall(contact, defaultMessage, session) ==
  LET message == ResolveMessage(contact, defaultMessage)
      d == [NoDispatch EXCEPT !.contact = contact, !.session = session]
  IN IF ~Truthy(message)
     THEN [d EXCEPT !.pc = "returned", !.result = FALSE]
     ELSE IF ~HasReplace(message)
     THEN CatchFault(d)
     ELSE [d EXCEPT !.pc = "awaitNumberId",
                    !.text = Personalize(message.s, contact.name.s)]

\* what getNumberId and client.sendMessage may answer
NumberIdAnswers == {"registered", "null", "throws"}
SendAnswers == {"ok", "throws"}

\* sendMessage resumed with the answer of getNumberId
OnNumberId(d, answer) ==
  LET c == [d EXCEPT !.checked = answer]
  IN CASE answer = "throws" -> CatchFault(c)
       [] answer = "null" -> NotRegistered(c)
       [] OTHER -> [c EXCEPT !.pc = "awaitSend", !.sendIssued = TRUE]

\* sendMessage resumed with the answer of client.sendMessage
OnSend(d, answer) ==
  IF answer = "throws" THEN CatchFault(d)
  ELSE [d EXCEPT !.pc = "returned", !.result = TRUE]

\* -------------------------------------------------------------------- state
\* sessions: every Client constructed so far, in construction order; the
\*   batch sender of main() is session 1.  A session holds the number of
\*   initialize() calls, the state of the initialize() promise, whether
\*   client.info is set (the session is ready), the callers registered with
\*   once('ready'), and the state of destroy().
\* batch: the run of main() / sendBulkMessages.
\* reqs: the POST /send-message requests.
\* senderInstance: the module-level variable (0 while undefined).
\* proc: the process (SIGINT and exit).
VARIABLES sessions, batch, reqs, senderInstance, proc

vars == <<sessions, batch, reqs, senderInstance, proc>>

Batch == 0
Requests == 1..MaxReq
BatchSession == 1

\* new Client(...) followed by client.initialize()
NewSession ==
  [initCalls |-> 1, init |-> "pending", info |-> FALSE, listeners |-> {},
   destroy |-> "none"]

\* main(): the default message of the run, shortened to one word around the
\* placeholder
DefaultTemplate == <<"H">> \o Placeholder \o <<"!">>

\* ------------------------------------------------------------ batch run
\* the finally block of main(): the SIGINT handler is registered once
\* sendBulkMessages has returned
MainFinally(b, how) == [b EXCEPT !.pc = "done", !.ended = how, !.handler = TRUE]

\* the catch block of sendBulkMessages: the fault is logged and the run
\* returns normally to main(); what names the fault
BulkRethrow(b, what) == MainFinally(b, "propagated")
BulkCatch(b, what) == MainFinally(b, what)

\* if (this.contacts.length === 0) return
NoContactsNever(contacts) == FALSE
NoContacts(contacts) == Len(contacts) = 0

\* if (this.client.info) resolve() else this.client.once('ready', resolve)
IsReadyNever(session) == FALSE
IsReady(session) == session.info

\* for (let i = 0; i < this.contacts.length; i++)
LoopCondition(i, n) == i < n

\* if (i < this.contacts.length - 1) await this.sleep(delay)
DelayNever(i, n) == FALSE
DelayAlways(i, n) == i < n
DelayNeeded(i, n) == i < n - 1

\* if (success) successCount++ else failureCount++
CountAlwaysSuccess(b) == [b EXCEPT !.successCount = @ + 1]
Count(b) ==
  IF b.d.result THEN [b EXCEPT !.successCount = @ + 1]
  ELSE [b EXCEPT !.failureCount = @ + 1]

\* The loop of sendBulkMessages from the top of iteration i to its next
\* suspension: BatchLoop tests the loop condition and calls sendMessage,
\* BatchAfterSend resumes with a terminated sendMessage.  attempts and sleeps
\* count the calls of sendMessage and of sleep.
RECURSIVE BatchLoop(_, _)
RECURSIVE BatchAfterSend(_)
BatchLoop(b, i) ==
  IF ~LoopCondition(i, Len(b.contacts)) THEN MainFinally(b, "summary")
  ELSE LET d == SendMessageCall(b.contacts[i + 1], b.defaultMessage, BatchSession)
           c == [b EXCEPT !.i = i, !.attempts = @ + 1, !.d = d]
       IN IF InFlight(d) THEN [c EXCEPT !.pc = "dispatch"] ELSE BatchAfterSend(c)

BatchAfterSend(b) ==
  IF b.d.pc = "threw" THEN BulkCatch(b, "error")
  ELSE LET c == Count(b)
       IN IF DelayNeeded(c.i, Len(c.contacts))
          THEN [c EXCEPT !.pc = "sleep", !.sleeps = @ + 1]
          ELSE BatchLoop(c, c.i + 1)

\* this.contacts = await this.readContactsFromCSV(csvFilePath): the file is
\* tested at once, and a missing file is caught by sendBulkMessages
BatchStartRead(b, exists) ==
  IF exists THEN [b EXCEPT !.pc = "awaitRead"] ELSE BulkCatch(b, "notfound")

Alive == ~proc.exited

\* await this.client.initialize() returns; then client.info is tested and,
\* when not set, the run waits for 'ready'
BatchInitResolves(exists) ==
  /\ Alive
  /\ batch.pc = "awaitInit"
  /\ IF IsReady(sessions[BatchSession])
     THEN /\ sessions' = [sessions EXCEPT ![BatchSession].init = "resolved"]
          /\ batch' = BatchStartRead(batch, exists)
     ELSE /\ sessions' = [sessions EXCEPT ![BatchSession].init = "resolved",
                                          ![BatchSession].listeners = @ \cup {Batch}]
          /\ batch' = [batch EXCEPT !.pc = "awaitReady"]
  /\ UNCHANGED <<reqs, senderInstance, proc>>

\* initialize() rejects: caught and logged by sendBulkMessages
BatchInitRejects ==
  /\ Alive
  /\ batch.pc = "awaitInit"
  /\ sessions' = [sessions EXCEPT ![BatchSession].init = "rejected"]
  /\ batch' = BulkCatch(batch, "error")
  /\ UNCHANGED <<reqs, senderInstance, proc>>

\* the run resumes after 'ready'
BatchReadyResumes(exists) ==
  /\ Alive
  /\ batch.pc = "readyResolved"
  /\ batch' = BatchStartRead(batch, exists)
  /\ UNCHANGED <<sessions, reqs, senderInstance, proc>>

\* the stream ends: the contacts are stored and the loop runs to its first
\* suspension (rows keeps what the stream delivered)
BatchReadEnds(rows) ==
  /\ Alive
  /\ batch.pc = "awaitRead"
  /\ LET b == [batch EXCEPT !.rows = rows, !.contacts = readContactsFromCSV(rows)]
     IN batch' = IF NoContacts(b.contacts) THEN MainFinally(b, "empty")
                 ELSE BatchLoop(b, 0)
  /\ UNCHANGED <<sessions, reqs, senderInstance, proc>>

\* the stream reports an error: the promise rejects
BatchReadFails ==
  /\ Alive
  /\ batch.pc = "awaitRead"
  /\ batch' = BulkCatch(batch, "error")
  /\ UNCHANGED <<sessions, reqs, senderInstance, proc>>

\* getNumberId answers the batch run's sendMessage
BatchNumberIdReturns(answer) ==
  /\ Alive
  /\ batch.pc = "dispatch" /\ batch.d.pc = "awaitNumberId"
  /\ LET b == [batch EXCEPT !.d = OnNumberId(batch.d, answer)]
     IN batch' = IF InFlight(b.d) THEN b ELSE BatchAfterSend(b)
  /\ UNCHANGED <<sessions, reqs, senderInstance, proc>>

\* client.sendMessage answers the batch run's sendMessage
BatchSendReturns(answer) ==
  /\ Alive
  /\ batch.pc = "dispatch" /\ batch.d.pc = "awaitSend"
  /\ batch' = BatchAfterSend([batch EXCEPT !.d = OnSend(batch.d, answer)])
  /\ UNCHANGED <<sessions, reqs, senderInstance, proc>>

\* the timer of sleep(delay) fires: next iteration
BatchSleepEnds ==
  /\ Alive
  /\ batch.pc = "sleep"
  /\ batch' = BatchLoop(batch, batch.i + 1)
  /\ UNCHANGED <<sessions, reqs, senderInstance, proc>>

\* ------------------------------------------------------- transport events
\* The session emits 'ready' (client.info is set first): every caller
\* registered with once('ready') is resolved and the listeners are dropped.
SessionReady(s) ==
  /\ Alive
  /\ sessions[s].init \in {"pending", "resolved"}
  /\ ~sessions[s].info
  /\ sessions' = [sessions EXCEPT ![s].info = TRUE, ![s].listeners = {}]
  /\ batch' = IF Batch \in sessions[s].listeners
              THEN [batch EXCEPT !.pc = "readyResolved"] ELSE batch
  /\ reqs' = [r \in Requests |->
                IF r \in sessions[s].listeners
                THEN [reqs[r] EXCEPT !.pc = "readyResolved"] ELSE reqs[r]]
  /\ UNCHANGED <<senderInstance, proc>>

\* ------------------------------------------------------------------ SIGINT
\* No handler is registered: the signal ends the process at once.
SigintDefault ==
  /\ Alive
  /\ proc.sig = "none"
  /\ ~batch.handler
  /\ proc' = [exited |-> TRUE, sig |-> "default", duringRun |-> batch.pc # "done"]
  /\ UNCHANGED <<sessions, batch, reqs, senderInstance>>

\* The handler of main() runs: sender.disconnect() calls client.destroy()
SigintHandled ==
  /\ Alive
  /\ proc.sig = "none"
  /\ batch.handler
  /\ sessions' = [sessions EXCEPT ![BatchSession].destroy = "pending"]
  /\ proc' = [proc EXCEPT !.sig = "handler", !.duringRun = batch.pc # "done"]
  /\ UNCHANGED <<batch, reqs, senderInstance>>

\* destroy() returns: process.exit(0)
DestroyReturns ==
  /\ Alive
  /\ proc.sig = "handler"
  /\ sessions[BatchSession].destroy = "pending"
  /\ sessions' = [sessions EXCEPT ![BatchSession].destroy = "done"]
  /\ proc' = [proc EXCEPT !.exited = TRUE]
  /\ UNCHANGED <<batch, reqs, senderInstance>>

\* ----------------------------------------------------------------- gateway
NoRequest ==
  [pc |-> "idle", body |-> [name |-> Undefined, phone |-> Undefined, message |-> Undefined],
   d |-> NoDispatch, resp |-> "none", got |-> 0, sess |-> 0, cold |-> FALSE,
   seen |-> "none"]

\* if (!senderInstance)
AlwaysInit(inst) == TRUE
NeedsInit(inst) == inst = 0

\* if (!phone || !message) return res.status(400)
MissingPhoneOnly(body) == ~Truthy(body.phone)
MissingField(body) == ~Truthy(body.phone) \/ ~Truthy(body.message)

\* the response of the handler once sendMessage has terminated; a fault that
\* left sendMessage would reach the catch block of the handler
GatewayRespondSuccess(q) == [q EXCEPT !.pc = "done", !.resp = "success"]
GatewayRespond(q) ==
  [q EXCEPT !.pc = "done",
            !.resp = IF q.d.pc = "threw" THEN "error"
                     ELSE IF q.d.result THEN "success" ELSE "failed"]

\* the catch block of the handler: res.status(500).json({error})
GatewayCatch(q) == [q EXCEPT !.pc = "done", !.resp = "error"]

\* the handler after await initWhatsAppClient(): the contact is built (a
\* phone that is no string makes formatPhoneNumber raise a TypeError, which
\* the catch block of the handler answers) and sendMessage is called on
\* senderInstance, without a default message
GatewayProceed(q, inst) ==
  LET contact == [name |-> OrElse(q.body.name, Str(Unknown)),
                  phone |-> Str(formatPhoneNumber(q.body.phone.s)),
                  message |-> q.body.message]
      d == SendMessageCall(contact, Str(<<>>), inst)
      c == [q EXCEPT !.got = inst, !.d = d]
  IN IF ~HasReplace(q.body.phone) THEN GatewayCatch([q EXCEPT !.got = inst])
     ELSE IF InFlight(d) THEN [c EXCEPT !.pc = "dispatch"] ELSE GatewayRespond(c)

\* A request arrives (requests are numbered in arrival order).  It is
\* validated; then initWhatsAppClient either constructs and initializes the
\* session, or finds senderInstance set and returns at once.  cold records
\* that the call was issued while the session was not ready yet, seen the
\* state of initialize() the call found ("none" when it made the session).
GatewayReceive(r, body) ==
  /\ Alive
  /\ reqs[r].pc = "idle"
  /\ \A p \in Requests : p < r => reqs[p].pc # "idle"
  /\ LET q == [reqs[r] EXCEPT !.body = body]
     IN IF MissingField(body)
        THEN /\ reqs' = [reqs EXCEPT ![r] = [q EXCEPT !.pc = "done", !.resp = "400"]]
             /\ UNCHANGED <<sessions, senderInstance>>
        ELSE IF NeedsInit(senderInstance)
        THEN /\ sessions' = Append(sessions, NewSession)
             /\ senderInstance' = Len(sessions) + 1
             /\ reqs' = [reqs EXCEPT ![r] =
                           [q EXCEPT !.pc = "awaitInit", !.sess = Len(sessions) + 1]]
        ELSE /\ reqs' = [reqs EXCEPT ![r] =
                           GatewayProceed(
                             [q EXCEPT !.cold = ~sessions[senderInstance].info,
                                       !.seen = sessions[senderInstance].init],
                             senderInstance)]
             /\ UNCHANGED <<sessions, senderInstance>>
  /\ UNCHANGED <<batch, proc>>

\* initialize() returns to the request that called it; senderInstance.client.info
\* is tested and, when not set, the request waits for 'ready'
GatewayInitResolves(r) ==
  /\ Alive
  /\ reqs[r].pc = "awaitInit"
  /\ IF IsReady(sessions[senderInstance])
     THEN /\ sessions' = [sessions EXCEPT ![reqs[r].sess].init = "resolved"]
          /\ reqs' = [reqs EXCEPT ![r] = GatewayProceed(reqs[r], senderInstance)]
     ELSE /\ sessions' = [sessions EXCEPT ![reqs[r].sess].init = "resolved",
                                          ![senderInstance].listeners = @ \cup {r}]
          /\ reqs' = [reqs EXCEPT ![r].pc = "awaitReady"]
  /\ UNCHANGED <<batch, senderInstance, proc>>

\* initialize() rejects: the catch block of the handler answers with the fault;
\* senderInstance stays set
GatewayInitRejects(r) ==
  /\ Alive
  /\ reqs[r].pc = "awaitInit"
  /\ sessions' = [sessions EXCEPT ![reqs[r].sess].init = "rejected"]
  /\ reqs' = [reqs EXCEPT ![r] = GatewayCatch(reqs[r])]
  /\ UNCHANGED <<batch, senderInstance, proc>>

\* the request resumes after 'ready'
GatewayReadyResumes(r) ==
  /\ Alive
  /\ reqs[r].pc = "readyResolved"
  /\ reqs' = [reqs EXCEPT ![r] = GatewayProceed(reqs[r], senderInstance)]
  /\ UNCHANGED <<sessions, batch, senderInstance, proc>>

\* getNumberId answers the request's sendMessage
GatewayNumberIdReturns(r, answer) ==
  /\ Alive
  /\ reqs[r].pc = "dispatch" /\ reqs[r].d.pc = "awaitNumberId"
  /\ LET q == [reqs[r] EXCEPT !.d = OnNumberId(reqs[r].d, answer)]
     IN reqs' = [reqs EXCEPT ![r] = IF InFlight(q.d) THEN q ELSE GatewayRespond(q)]
  /\ UNCHANGED <<sessions, batch, senderInstance, proc>>

\* client.sendMessage answers the request's sendMessage
GatewaySendReturns(r, answer) ==
  /\ Alive
  /\ reqs[r].pc = "dispatch" /\ reqs[r].d.pc = "awaitSend"
  /\ reqs' = [reqs EXCEPT ![r] =
                GatewayRespond([reqs[r] EXCEPT !.d = OnSend(reqs[r].d, answer)])]
  /\ UNCHANGED <<sessions, batch, senderInstance, proc>>

\* ------------------------------------------------------------------ inputs
\* rows of the contact file: a row without a message, a row without a name
\* carrying its own message, and a row without a phone
Rows ==
  {[name |-> Str(<<"A">>), phone |-> Str(<<"0", "8">>), message |-> Str(<<>>)],
   [name |-> Undefined, phone |-> Str(<<"6", "2", "8">>),
    message |-> Str(<<"X">> \o Placeholder)],
   [name |-> Str(<<"B">>), phone |-> Str(<<>>), message |-> Undefined]}

RECURSIVE SeqsUpTo(_, _)
SeqsUpTo(S, n) ==
  IF n = 0 THEN {<<>>}
  ELSE LET shorter == SeqsUpTo(S, n - 1)
       IN shorter \cup {Append(q, x) : q \in shorter, x \in S}

Files == SeqsUpTo(Rows, MaxRows)

\* the default message of a run: none, or the one of main()
DefaultMessages == {Str(<<>>), Str(DefaultTemplate)}

\* request bodies: a full one, one without a name, one without a phone, one
\* without a message, one whose phone is a number and one whose message is
\* a number
Bodies ==
  {[name |-> Str(<<"A">>), phone |-> Str(<<"0", "8">>), message |-> Str(Placeholder)],
   [name |-> Undefined, phone |-> Str(<<"8">>), message |-> Str(<<"X">>)],
   [name |-> Str(<<"A">>), phone |-> Undefined, message |-> Str(<<"X">>)],
   [name |-> Str(<<"A">>), phone |-> Str(<<"8">>), message |-> Undefined],
   [name |-> Str(<<"A">>), phone |-> Num(<<"8">>), message |-> Str(<<"X">>)],
   [name |-> Str(<<"A">>), phone |-> Str(<<"8">>), message |-> Num(<<"5">>)]}

\* ----------------------------------------------------------- specification
\* The state once the module has been loaded: main() has constructed its
\* sender and is suspended in client.initialize(); the server listens.
InitBatch(defaultMessage) ==
  [pc |-> "awaitInit", rows |-> <<>>, contacts |-> <<>>, i |-> 0, successCount |-> 0,
   failureCount |-> 0, defaultMessage |-> defaultMessage, attempts |-> 0,
   sleeps |-> 0, d |-> NoDispatch, handler |-> FALSE, ended |-> "none"]

Init ==
  /\ sessions = <<NewSession>>
  /\ batch \in {InitBatch(m) : m \in DefaultMessages}
  /\ reqs = [r \in Requests |-> NoRequest]
  /\ senderInstance = 0
  /\ proc = [exited |-> FALSE, sig |-> "none", duringRun |-> FALSE]

NextBatch ==
  \/ \E exists \in BOOLEAN : BatchInitResolves(exists)
  \/ BatchInitRejects
  \/ \E exists \in BOOLEAN : BatchReadyResumes(exists)
  \/ \E rows \in Files : BatchReadEnds(rows)
  \/ BatchReadFails
  \/ \E answer \in NumberIdAnswers : BatchNumberIdReturns(answer)
  \/ \E answer \in SendAnswers : BatchSendReturns(answer)
  \/ BatchSleepEnds
  \/ SessionReady(BatchSession)

NextSignal ==
  \/ SigintDefault
  \/ SigintHandled
  \/ DestroyReturns

NextGateway ==
  \/ \E r \in Requests, body \in Bodies : GatewayReceive(r, body)
  \/ \E r \in Requests : GatewayInitResolves(r)
  \/ \E r \in Requests : GatewayInitRejects(r)
  \/ \E r \in Requests : GatewayReadyResumes(r)
  \/ \E r \in Requests, answer \in NumberIdAnswers : GatewayNumberIdReturns(r, answer)
  \/ \E r \in Requests, answer \in SendAnswers : GatewaySendReturns(r, answer)
  \/ \E s \in 2..Len(sessions) : SessionReady(s)

Next == NextBatch \/ NextSignal \/ NextGateway

Spec == Init /\ [][Next]_vars

\* the batch run and the signal alone
SpecBatch == Init /\ [][NextBatch \/ NextSignal]_vars

\* the gateway alone
SpecGateway == Init /\ [][NextGateway]_vars

\* ---------------------------------------------- sendMessage on any texts
\* A batch run over a file of one row whose name and message, like the
\* default message of the run, range over every text within the bounds.
NameChars == {"A", "$", "&"}
TemplateParts == {Placeholder, <<"H">>}

RECURSIVE Concat(_)
Concat(parts) == IF parts = <<>> THEN <<>> ELSE Head(parts) \o Concat(Tail(parts))

NameTexts == SeqsUpTo(NameChars, MaxNameLen)
TemplateTexts == {Concat(parts) : parts \in SeqsUpTo(TemplateParts, MaxParts)}

TextRows ==
  {[name |-> n, phone |-> Str(<<"0", "8">>), message |-> m] :
     n \in {Str(t) : t \in NameTexts} \cup {Undefined},
     m \in {Str(t) : t \in TemplateTexts} \cup {Undefined}}

\* the run has initialized its session, seen it ready and opened the file
InitSend ==
  /\ sessions = <<[NewSession EXCEPT !.init = "resolved", !.info = TRUE]>>
  /\ batch \in {[InitBatch(Str(t)) EXCEPT !.pc = "awaitRead"] : t \in TemplateTexts}
  /\ reqs = [r \in Requests |-> NoRequest]
  /\ senderInstance = 0
  /\ proc = [exited |-> FALSE, sig |-> "none", duringRun |-> FALSE]

NextSend ==
  \/ \E row \in TextRows : BatchReadEnds(<<row>>)
  \/ \E answer \in NumberIdAnswers : BatchNumberIdReturns(answer)
  \/ \E answer \in SendAnswers : BatchSendReturns(answer)

SpecSend == InitSend /\ [][NextSend]_vars

\* ------------------------------------------- formatPhoneNumber on any phone
\* A batch run over a file of one row whose phone ranges over every text
\* within the bounds, and over three phones written the usual ways.
PhoneChars == {"0", "2", "6", "8", "-"}

ExamplePhones ==
  {<<"0", "8", "1", "2", "3", "4", "5", "6", "7">>,
   <<"8", "1", "2", "3", "4", "5", "6", "7">>,
   <<"6", "2", "8", "1", "2", "3", "4", "5", "6", "7">>}

PhoneTexts == SeqsUpTo(PhoneChars, MaxPhoneLen) \cup ExamplePhones

PhoneRows ==
  {[name |-> Str(<<"A">>), phone |-> Str(t), message |-> Undefined] : t \in PhoneTexts}

InitPhone ==
  /\ sessions = <<[NewSession EXCEPT !.init = "resolved", !.info = TRUE]>>
  /\ batch = [InitBatch(Str(DefaultTemplate)) EXCEPT !.pc = "awaitRead"]
  /\ reqs = [r \in Requests |-> NoRequest]
  /\ senderInstance = 0
  /\ proc = [exited |-> FALSE, sig |-> "none", duringRun |-> FALSE]

NextPhone ==
  \/ \E row \in PhoneRows : BatchReadEnds(<<row>>)
  \/ \E answer \in NumberIdAnswers : BatchNumberIdReturns(answer)
  \/ \E answer \in SendAnswers : BatchSendReturns(answer)

SpecPhone == InitPhone /\ [][NextPhone]_vars

\* ------------------------------------------------- the wait for readiness
\* The callers up to the end of their wait for 'ready': initialize() returns
\* or rejects, the session emits 'ready', the suspended callers resume.  A
\* promise that was resolved has its continuation queued as a microtask,
\* which the event loop always runs: the resumptions are weakly fair.
\* Nothing makes initialize() return or the session emit 'ready'.
\* The wait does not look at the request beyond its validation: a body with
\* every field as a text, and one without a phone.
ReadyBodies ==
  {body \in Bodies :
     /\ body.name.t = "string" /\ body.message.t = "string"
     /\ body.phone.t \in {"string", "undefined"}
     /\ body.phone.s # <<"8">>}

NextReady ==
  \/ \E exists \in BOOLEAN : BatchInitResolves(exists)
  \/ BatchInitRejects
  \/ \E exists \in BOOLEAN : BatchReadyResumes(exists)
  \/ \E r \in Requests, body \in ReadyBodies : GatewayReceive(r, body)
  \/ \E r \in Requests : GatewayInitResolves(r)
  \/ \E r \in Requests : GatewayInitRejects(r)
  \/ \E r \in Requests : GatewayReadyResumes(r)
  \/ \E s \in 1..Len(sessions) : SessionReady(s)

SpecReady ==
  /\ Init
  /\ [][NextReady]_vars
  /\ WF_vars(\E exists \in BOOLEAN : BatchReadyResumes(exists))
  /\ \A r \in Requests : WF_vars(GatewayReadyResumes(r))

\* ------------------------------------------------------------------ claims
\* the callers whose sendMessage is between its call and its return
InFlightActors ==
  (IF InFlight(batch.d) THEN {Batch} ELSE {})
    \cup {r \in Requests : InFlight(reqs[r].d)}

\* C1: a batch run over N >= 1 contacts that reaches its summary has called
\* sendMessage exactly N times and sleep exactly N - 1 times, whatever the
\* outcomes were; once contacts are loaded the run ends in no other way, and
\* a run that ended in its catch block had not attempted any contact.
C1_AttemptsAndDelays ==
  /\ batch.ended = "summary" =>
       /\ Len(batch.contacts) >= 1
       /\ batch.attempts = Len(batch.contacts)
       /\ batch.sleeps = Len(batch.contacts) - 1
  /\ (batch.pc = "done" /\ Len(batch.contacts) >= 1) => batch.ended = "summary"
  /\ batch.ended \in {"error", "notfound"} => batch.attempts = 0

\* a finished run of at least two contacts none of which was sent, the last
\* one because the session raised
C1_Witness ==
  /\ batch.ended = "summary"
  /\ Len(batch.contacts) >= 2
  /\ batch.failureCount = Len(batch.contacts)
  /\ batch.d.fault

\* C2: contacts are dispatched in input order, one at a time: sendMessage is
\* called for one contact per step, for the next contact of the list; every
\* call but the first is made when the timer of one sleep fires, the previous
\* sendMessage having returned; a sendMessage that returns is followed by a
\* sleep exactly when a contact is left, whether it returned true or false.
C2_Step ==
  /\ batch'.attempts # batch.attempts =>
       /\ batch'.attempts = batch.attempts + 1
       /\ batch'.d.contact = batch'.contacts[batch'.attempts]
       /\ batch'.contacts = batch.contacts \/ batch.attempts = 0
       /\ batch.attempts >= 1 =>
            /\ batch.pc = "sleep"
            /\ Terminal(batch.d)
            /\ batch.sleeps = batch.attempts
  /\ batch'.sleeps # batch.sleeps =>
       /\ batch'.sleeps = batch.sleeps + 1
       /\ batch'.pc = "sleep"
  /\ (batch'.d # batch.d /\ Terminal(batch'.d)) =>
       IF batch'.attempts < Len(batch'.contacts)
       THEN batch'.pc = "sleep" /\ batch'.sleeps = batch'.attempts
       ELSE batch'.pc = "done" /\ batch'.sleeps = batch'.attempts - 1
  /\ batch.pc = "sleep" => batch'.pc \in {"sleep", "dispatch", "done"}

C2_SequentialWithDelay == [][C2_Step]_vars

\* a finished run of two contacts that slept once, after a contact that was
\* sent; the second contact failed
C2_Witness ==
  /\ batch.ended = "summary"
  /\ batch.attempts = 2
  /\ batch.sleeps = 1
  /\ batch.successCount = 1
  /\ ~batch.d.result

\* C3: no two sendMessage executions are in flight at the same time
C3_NoConcurrentDispatch == Cardinality(InFlightActors) <= 1

\* C4: the requests to which initWhatsAppClient has returned all hold the
\* same session, which is the only one the gateway constructed, and
\* initialize() was called on it once
C4_OneSessionOneConnect ==
  /\ \A r1, r2 \in Requests :
       (reqs[r1].got # 0 /\ reqs[r2].got # 0) => reqs[r1].got = reqs[r2].got
  /\ Len(sessions) <= 2
  /\ \A s \in 2..Len(sessions) : sessions[s].initCalls = 1

\* two calls have returned, the first one having initialized the session and
\* the second one issued before the session was ready
C4_Witness ==
  \E r1, r2 \in Requests :
    /\ r1 # r2
    /\ reqs[r1].sess # 0 /\ reqs[r1].got # 0
    /\ reqs[r2].cold /\ reqs[r2].got # 0

\* C5: whenever initWhatsAppClient has returned to a request, the session it
\* holds is ready; so no getNumberId or sendMessage goes to a session that is
\* not ready
C5_ReturnsReadySession ==
  \A r \in Requests :
    /\ reqs[r].got # 0 => sessions[reqs[r].got].info
    /\ InFlight(reqs[r].d) => sessions[reqs[r].d.session].info

\* C6: at most one session is ever constructed, and every sendMessage goes to
\* the session constructed first
C6_SingleSession ==
  /\ Len(sessions) <= 1
  /\ batch.d.session \in {0, 1}
  /\ \A r \in Requests : reqs[r].d.session \in {0, 1}

\* C7: a process that exited on a SIGINT received during the batch run has
\* called client.destroy() before
C7_SigintDisconnects ==
  (proc.exited /\ proc.duringRun) => sessions[BatchSession].destroy # "none"

\* C8: no fault leaves sendMessage: an attempt in which getNumberId or
\* client.sendMessage raised has returned false, and the handler that called
\* it answers "failed", not through its own catch block
C8_NoFaultPropagates ==
  \A r \in Requests :
    /\ reqs[r].d.pc # "threw"
    /\ reqs[r].d.fault =>
         /\ reqs[r].d.pc = "returned" /\ ~reqs[r].d.result
         /\ reqs[r].pc = "done" /\ reqs[r].resp = "failed"
    /\ reqs[r].resp = "error" => reqs[r].d.pc = "idle"

\* a request whose client.sendMessage raised
C8_Witness ==
  \E r \in Requests :
    /\ reqs[r].d.fault
    /\ reqs[r].d.sendIssued
    /\ reqs[r].resp = "failed"

\* C9: client.sendMessage is called only after getNumberId of the same
\* attempt answered a registration; an attempt whose recipient is not
\* registered returns false without calling it
C9_SendOnlyIfRegistered ==
  /\ batch.d.sendIssued => batch.d.checked = "registered"
  /\ batch.d.pc = "awaitSend" => batch.d.sendIssued
  /\ batch.d.checked = "null" =>
       /\ batch.d.pc = "returned"
       /\ ~batch.d.result
       /\ ~batch.d.sendIssued

\* the attempt on an unregistered recipient has returned
C9_Witness ==
  /\ batch.d.checked = "null"
  /\ batch.d.pc = "returned"
  /\ batch.failureCount >= 1

\* the template with the first placeholder, or with every placeholder,
\* replaced by the name as it is written
ReplaceFirstLiteral(s, name) ==
  LET p == IndexOf(s, Placeholder)
  IN IF p = 0 THEN s
     ELSE SubSeq(s, 1, p - 1) \o name \o SubSeq(s, p + Len(Placeholder), Len(s))

RECURSIVE ReplaceAllLiteral(_, _)
ReplaceAllLiteral(s, name) ==
  LET p == IndexOf(s, Placeholder)
  IN IF p = 0 THEN s
     ELSE SubSeq(s, 1, p - 1) \o name
          \o ReplaceAllLiteral(SubSeq(s, p + Len(Placeholder), Len(s)), name)

\* C10: a sendMessage that returned true has called client.sendMessage with
\* the template (contact.message, else the default message) in which {name}
\* is replaced by the name of the contact
C10_DeliveredText ==
  (batch.d.pc = "returned" /\ batch.d.result) =>
    LET template == ResolveMessage(batch.d.contact, batch.defaultMessage).s
        name == batch.d.contact.name.s
    IN /\ batch.d.sendIssued
       /\ batch.d.text \in {ReplaceFirstLiteral(template, name),
                            ReplaceAllLiteral(template, name)}

\* C11 as stated: a run that found no contact has zero counters and has
\* invoked no operation of the session at all
C11_NoTransportContact ==
  batch.ended = "empty" =>
    /\ batch.successCount = 0 /\ batch.failureCount = 0
    /\ sessions[BatchSession].initCalls = 0

\* C11, amended: a run whose file yields no contact ends by reporting that,
\* with zero counters and without any sendMessage, getNumberId, send or
\* sleep; the one operation of the session it has invoked is initialize(),
\* which it awaited, with readiness, before reading the file
C11_EmptyRunNoDispatch ==
  (batch.ended \in {"empty", "summary"} /\ Len(batch.contacts) = 0) =>
    /\ batch.ended = "empty"
    /\ batch.attempts = 0 /\ batch.sleeps = 0
    /\ batch.successCount = 0 /\ batch.failureCount = 0
    /\ batch.d = NoDispatch
    /\ sessions[BatchSession].initCalls = 1
    /\ sessions[BatchSession].init = "resolved"
    /\ sessions[BatchSession].info

\* a run over a file whose rows all lack a phone
C11_Witness ==
  /\ batch.ended = "empty"
  /\ Len(batch.rows) >= 1

\* the payload has no phone or no message
LacksField(body) == body.phone.t = "undefined" \/ body.message.t = "undefined"

\* C12: a request without phone or without message is answered 400 and
\* nothing else happens: initWhatsAppClient is not called (no session is
\* constructed or initialized, senderInstance is untouched) and sendMessage
\* is not called
C12_Rejected ==
  \A r \in Requests :
    (reqs[r].pc # "idle" /\ LacksField(reqs[r].body)) =>
      /\ reqs[r].pc = "done" /\ reqs[r].resp = "400"
      /\ reqs[r].got = 0 /\ reqs[r].sess = 0 /\ reqs[r].seen = "none"
      /\ reqs[r].d = NoDispatch

C12_Step ==
  \A r \in Requests :
    (reqs[r].pc = "idle" /\ reqs'[r].pc # "idle" /\ LacksField(reqs'[r].body)) =>
      /\ sessions' = sessions
      /\ senderInstance' = senderInstance
      /\ \A p \in Requests \ {r} : reqs'[p] = reqs[p]

C12_MissingFieldNoEffect == []C12_Rejected /\ [][C12_Step]_vars

\* one request without a phone and one without a message were rejected
C12_Witness ==
  \E r1, r2 \in Requests :
    /\ reqs[r1].resp = "400" /\ reqs[r1].body.phone.t = "undefined"
    /\ reqs[r2].resp = "400" /\ reqs[r2].body.message.t = "undefined"

\* C13: a request with phone and message is answered once, and by what
\* happened: "success" exactly when sendMessage returned true, "failed"
\* exactly when it returned false, and the generic "error" exactly when
\* initialize() rejected under the request (session acquisition) or
\* formatPhoneNumber raised on its phone (normalization); a request that is
\* not done has no response, and a response is never changed
C13_Outcome ==
  \A r \in Requests :
    (reqs[r].pc # "idle" /\ ~LacksField(reqs[r].body)) =>
      LET q == reqs[r]
          acquisitionFault ==
            q.got = 0 /\ q.sess # 0 /\ sessions[q.sess].init = "rejected"
          normalizationFault == q.got # 0 /\ q.body.phone.t # "string"
      IN /\ q.pc = "done" <=> q.resp # "none"
         /\ q.resp \in {"none", "success", "failed", "error"}
         /\ q.resp = "success" <=> (q.d.pc = "returned" /\ q.d.result)
         /\ q.resp = "failed" <=> (q.d.pc = "returned" /\ ~q.d.result)
         /\ q.resp = "error" <=> (acquisitionFault \/ normalizationFault)

C13_Step ==
  \A r \in Requests : reqs[r].resp # "none" => reqs'[r] = reqs[r]

C13_OneResponsePerOutcome == []C13_Outcome /\ [][C13_Step]_vars

\* a request answered "success", and one past session acquisition answered
\* "error" because its phone is a number
C13_Witness ==
  \E r1, r2 \in Requests :
    /\ reqs[r1].resp = "success"
    /\ reqs[r2].resp = "error" /\ reqs[r2].got # 0

\* the digits of a text, in order
RECURSIVE DigitsOf(_)
DigitsOf(s) ==
  IF s = <<>> THEN <<>>
  ELSE (IF Head(s) \in Digits THEN <<Head(s)>> ELSE <<>>) \o DigitsOf(Tail(s))

\* the digit part the rule asks for: the digits unchanged when they start
\* with 62, with the leading 0 replaced by 62 when they start with 0,
\* otherwise with 62 prepended
ExpectedDigits(raw) ==
  LET ds == DigitsOf(raw)
  IN IF Len(ds) >= 2 /\ ds[1] = "6" /\ ds[2] = "2" THEN ds
     ELSE IF Len(ds) >= 1 /\ ds[1] = "0" THEN <<"6", "2">> \o Tail(ds)
     ELSE <<"6", "2">> \o ds

\* C14: the phone of a contact made from a row is D followed by @c.us, where
\* D holds only digits and is the digits of the raw phone unchanged when they
\* start with 62, with the leading 0 replaced by 62 when they start with 0,
\* and with 62 prepended otherwise; 081234567, 81234567 and 6281234567 all
\* become 6281234567@c.us.
C14_NormalizedPhone ==
  Len(batch.contacts) = 1 =>
    LET raw == batch.rows[1].phone.s
        out == batch.contacts[1].phone.s
        D == SubSeq(out, 1, Len(out) - 5)
    IN /\ batch.contacts[1].phone.t = "string"
       /\ Len(out) >= 5
       /\ SubSeq(out, Len(out) - 4, Len(out)) = <<"@", "c", ".", "u", "s">>
       /\ \A k \in 1..Len(D) : D[k] \in Digits
       /\ D = ExpectedDigits(raw)
       /\ raw \in ExamplePhones =>
            out = <<"6", "2", "8", "1", "2", "3", "4", "5", "6", "7",
                    "@", "c", ".", "u", "s">>

\* a phone written with a leading 0 and a separator was normalized, and its
\* message went out
C14_Witness ==
  /\ Len(batch.contacts) = 1
  /\ batch.rows[1].phone.s = <<"0", "-", "8">>
  /\ batch.contacts[1].phone.s = <<"6", "2", "8", "@", "c", ".", "u", "s">>
  /\ batch.ended = "summary" /\ batch.successCount = 1

\* a field of a row that holds a non-empty text
HasText(v) == v.t = "string" /\ Len(v.s) >= 1

\* the rows of a file that carry a phone, in file order
RowsWithPhone(rows) == SelectSeq(rows, LAMBDA row : HasText(row.phone))

\* C15: the contacts loaded from a file are, in file order, one per row with
\* a non-empty phone and none for the other rows; the phone of each is the
\* normalized address of the row's phone, its name the row's name or Unknown
\* when the row has none, its message the row's message or null when the row
\* has none.
C15_ContactsFromRows ==
  LET kept == RowsWithPhone(batch.rows)
  IN /\ Len(batch.contacts) = Len(kept)
     /\ \A k \in 1..Len(kept) :
          LET row == kept[k]
              contact == batch.contacts[k]
          IN /\ contact.phone =
                  [t |-> "string",
                   s |-> ExpectedDigits(row.phone.s) \o <<"@", "c", ".", "u", "s">>]
             /\ contact.name =
                  (IF HasText(row.name) THEN row.name
                   ELSE [t |-> "string", s |-> <<"U", "n", "k", "n", "o", "w", "n">>])
             /\ contact.message =
                  (IF HasText(row.message) THEN row.message
                   ELSE [t |-> "null", s |-> <<>>])

\* a file of two rows, the first without a phone, the second without a name:
\* one contact, called Unknown
C15_Witness ==
  /\ Len(batch.rows) = 2 /\ Len(batch.contacts) = 1
  /\ ~HasText(batch.rows[1].phone)
  /\ batch.rows[2].name.t = "undefined"
  /\ batch.contacts[1].name.s = <<"U", "n", "k", "n", "o", "w", "n">>

\* a dispatch that ended with the message handed to the session and accepted
Sent(d) == d.pc = "returned" /\ d.checked = "registered" /\ d.sendIssued /\ ~d.fault

\* the number of contacts of the run whose dispatch has terminated
TerminatedDispatches == batch.attempts - (IF InFlight(batch.d) THEN 1 ELSE 0)

C16_Inv ==
  /\ batch.successCount + batch.failureCount = TerminatedDispatches
  /\ batch.ended = "summary" =>
       batch.successCount + batch.failureCount = Len(batch.contacts)

C16_Step ==
  LET ds == batch'.successCount - batch.successCount
      df == batch'.failureCount - batch.failureCount
  IN /\ ds \in {0, 1} /\ df \in {0, 1} /\ ds + df <= 1
     /\ ds + df = 1 => Terminal(batch'.d)
     /\ ds = 1 => Sent(batch'.d)
     /\ df = 1 => ~Sent(batch'.d)

\* C16: at every point of a batch run successCount + failureCount is the
\* number of contacts whose dispatch has terminated, and the number of
\* contacts once the summary is reached; each terminated dispatch adds one to
\* successCount when it ended with the message sent and one to failureCount
\* otherwise (no text, not registered, fault).
C16_CountersMatchOutcomes == []C16_Inv /\ [][C16_Step]_vars

\* a finished run of two contacts: one sent, the other failed in the send
C16_Witness ==
  /\ batch.ended = "summary"
  /\ batch.successCount = 1 /\ batch.failureCount = 1
  /\ batch.d.sendIssued /\ batch.d.fault

\* a value that gives no text: absent, null or the empty string
NoText(v) == v.t \in {"undefined", "null"} \/ (v.t = "string" /\ v.s = <<>>)

\* C17: a sendMessage called for a contact without a message, in a run
\* without a default message, has returned false at once: getNumberId and
\* client.sendMessage were not called and no fault was raised.
C17_NoTextNoAttempt ==
  (batch.d.pc # "idle" /\ NoText(batch.d.contact.message) /\ NoText(batch.defaultMessage)) =>
    /\ batch.d.pc = "returned" /\ ~batch.d.result
    /\ batch.d.checked = "none" /\ ~batch.d.sendIssued /\ ~batch.d.fault
    /\ batch.failureCount = 1 /\ batch.successCount = 0

\* a run without a default message over a contact without a message
C17_Witness ==
  /\ batch.ended = "summary" /\ batch.attempts = 1
  /\ batch.defaultMessage.s = <<>> /\ batch.d.contact.message.t = "null"
  /\ batch.d.pc = "returned" /\ batch.d.checked = "none"

\* C18: a run whose contact file does not exist ends at once, in the catch
\* block of sendBulkMessages: no contact was loaded, sendMessage was never
\* called (no getNumberId, no client.sendMessage), no sleep was taken, and
\* sendBulkMessages returned normally to main(), whose finally block ran; no
\* run ends with a fault handed to the caller of sendBulkMessages.
C18_MissingFileAborts ==
  /\ batch.ended = "notfound" =>
       /\ batch.pc = "done" /\ batch.handler
       /\ batch.rows = <<>> /\ batch.contacts = <<>>
       /\ batch.attempts = 0 /\ batch.sleeps = 0
       /\ batch.d.pc = "idle" /\ ~batch.d.sendIssued /\ batch.d.checked = "none"
       /\ batch.successCount = 0 /\ batch.failureCount = 0
  /\ batch.ended \in {"none", "summary", "empty", "error", "notfound"}

\* the session became ready, then the file was found missing
C18_Witness ==
  /\ batch.ended = "notfound"
  /\ sessions[BatchSession].init = "resolved" /\ sessions[BatchSession].info

\* the requests whose initWhatsAppClient constructed a session
Constructors == {r \in Requests : reqs[r].sess # 0}

C19_Inv ==
  /\ Cardinality(Constructors) <= 1
  /\ senderInstance = 0 <=> Constructors = {}
  /\ senderInstance # 0 =>
       /\ Len(sessions) = senderInstance
       /\ \A r \in Constructors : reqs[r].sess = senderInstance
       /\ sessions[senderInstance].initCalls = 1

C19_Step ==
  senderInstance # 0 =>
    /\ senderInstance' = senderInstance
    /\ Len(sessions') = Len(sessions)
    /\ sessions'[senderInstance].initCalls = sessions[senderInstance].initCalls

\* C19: at most one request ever constructs the gateway session; once
\* senderInstance is set it is never replaced, no further session is
\* constructed and initialize() is not called again on it, also after that
\* initialize() rejected.
C19_ConstructedOnce == []C19_Inv /\ [][C19_Step]_vars

\* initialize() rejected for the request that constructed the session, and a
\* later request was handed the same session
C19_Witness ==
  \E r1, r2 \in Requests :
    /\ reqs[r1].sess = senderInstance /\ reqs[r1].resp = "error"
    /\ sessions[senderInstance].init = "rejected"
    /\ reqs[r2].seen = "rejected" /\ reqs[r2].got = senderInstance

\* a caller that is suspended in its wait for 'ready', or resolved and not
\* resumed yet
Waiting(pc) == pc \in {"awaitReady", "readyResolved"}

\* while a caller is suspended on 'ready', its session is not ready and holds
\* the caller's listener
C20_Registered ==
  /\ batch.pc = "awaitReady" =>
       /\ ~sessions[BatchSession].info
       /\ Batch \in sessions[BatchSession].listeners
  /\ \A r \in Requests :
       reqs[r].pc = "awaitReady" =>
         /\ ~sessions[reqs[r].sess].info
         /\ r \in sessions[reqs[r].sess].listeners

\* a caller leaves its suspension only in a step in which its session
\* becomes ready
C20_OnlyReadyWakes ==
  /\ (batch.pc = "awaitReady" /\ batch'.pc # "awaitReady") =>
       /\ batch'.pc = "readyResolved"
       /\ ~sessions[BatchSession].info /\ sessions'[BatchSession].info
  /\ \A r \in Requests :
       (reqs[r].pc = "awaitReady" /\ reqs'[r].pc # "awaitReady") =>
         /\ reqs'[r].pc = "readyResolved"
         /\ ~sessions[reqs[r].sess].info /\ sessions'[reqs[r].sess].info

\* C20: once the session is ready, whether it became so before initialize()
\* returned or while the caller was suspended on its listener, the caller is
\* eventually past its wait; and a suspended caller leaves its wait only
\* when the session emits ready.
C20_NoLostWakeup ==
  /\ []C20_Registered
  /\ [][C20_OnlyReadyWakes]_vars
  /\ [](sessions[BatchSession].info => <>(~Waiting(batch.pc)))
  /\ \A r \in Requests :
       []((reqs[r].sess # 0 /\ sessions[reqs[r].sess].info) => <>(~Waiting(reqs[r].pc)))

\* the batch run has been woken by ready and the request that initialized the
\* gateway session is past its wait
C20_Witness ==
  /\ batch.pc = "readyResolved"
  /\ \E r \in Requests : reqs[r].sess # 0 /\ reqs[r].pc = "dispatch"

====
